---- MODULE Spec2Model ----
(***************************************************************************)
(* The generative-AI call layer of vertex-ai-mcp-server: one call of the   *)
(* retry loop, the streaming accumulator and the error classification, for *)
(* the three client functions the repository holds:                        *)
(*   "dual"   callGenerativeAI (two SDK clients)      src/unnamed/part_004 *)
(*   "genai"  callGenerativeAI (unified GoogleGenAI)  src/unnamed/part_003 *)
(*   "legacy" callVertexAIWithOptionalFunctionCalling src/unnamed/part_003 *)
(* A text is a sequence of characters, <<>> standing for both the empty    *)
(* string and an absent text (both are falsy to the code).  An error       *)
(* message is the set of the phrases it contains, lowercased, which is all *)
(* the code ever asks of it (String.includes on the lowercased message).   *)
(***************************************************************************)
EXTENDS Integers, Sequences, FiniteSets, TLC

\* ---------------------------------------------------------------- bounds
MaxRetriesBound == 2
MaxChunks == 2

\* ------------------------------------------------------ program constants
JitterMs == 500

\* ------------------------------------------------------------ value sets
Impls == {"dual", "genai", "legacy"}
Providers == {"vertex", "gemini"}
\* the function/provider pairs that exist: the legacy function is Vertex only
Variants ==
    {v \in [impl : Impls, provider : Providers] :
        v.impl = "legacy" => v.provider = "vertex"}

RetryDelays == {0, 1000}

NoMsg == [toks |-> {}, status |-> "ABSENT"]
Msg(toks) == [toks |-> toks, status |-> "NONE"]

\* the errors a provider stub raises
RawMessages ==
    { Msg({"503"}), Msg({"unavailable"}), Msg({"safety"}),
      Msg({"safety", "503"}), Msg({}),
      [toks |-> {"503"}, status |-> "BLOCKED"] }

BlockReasons == {"none", "BLOCK_REASON_UNSPECIFIED", "OTHER", "SAFETY"}
FinishReasons == {"STOP", "SAFETY"}
Texts == {<<>>, <<"a">>}
Responses == [text : Texts, blockReason : BlockReasons, finishReason : FinishReasons]
NoResp == [text |-> <<>>, blockReason |-> "absent", finishReason |-> "absent"]

TextChunk(t) == [kind |-> "text", text |-> t, err |-> NoMsg]
ThrowChunk(e) == [kind |-> "throw", text |-> <<>>, err |-> e]
ChunkTexts == {<<>>, <<"a">>, <<"b">>}
ChunkErrors == {Msg({}), Msg({"safety"})}

\* ------------------------------------------------- message inspection
\* needle is a substring of the phrase
SubstringOf(needle, phrase) ==
    \/ needle = phrase
    \/ needle = "blocked" /\ phrase \in {"prompt blocked", "content generation blocked"}

\* String(error.message).toLowerCase().includes(needle)
Includes(e, needle) == \E p \in e.toks : SubstringOf(needle, p)

StatusTokens == {"429", "500", "503"}
TransientTokens ==
    StatusTokens \cup {"deadline_exceeded", "internal", "network error",
                       "socket hang up", "unavailable", "could not connect"}

\* new Error(`... Content generation blocked. ... Reason: ${e.message}`)
BlockedError(e) == Msg(e.toks \cup {"content generation blocked"})
EmptyStreamError == Msg({"empty or non-text response"})
ExtractError == Msg({"failed to extract valid text response"})
MaxRetriesError == Msg({"max retries reached"})

\* --------------------------------------------------- error classification
\* isBlockingError of the catch block
IsBlockingError(impl, e) ==
    IF impl = "legacy"
    THEN Includes(e, "content generation blocked")
    ELSE Includes(e, "blocked") \/ Includes(e, "safety")

\* the substrings the catch block accepts as a transient fault
RetryTokens(impl) == IF impl = "legacy" THEN StatusTokens ELSE TransientTokens

\* isRetryable of the catch block
IsRetryable(impl, e) ==
    /\ ~IsBlockingError(impl, e)
    /\ \E tok \in RetryTokens(impl) : Includes(e, tok)

\* a catch block that retries a transient fault on the last attempt too
ShouldRetryPastLimit(impl, e, att, maxR) == IsRetryable(impl, e)

\* the catch block as the spec words it: everything but a block is retried
ShouldRetryUnlessBlocked(impl, e, att, maxR) == ~IsBlockingError(impl, e) /\ att < maxR

\* if (isRetryable && attempt < maxRetries)
ShouldRetry(impl, e, att, maxR) == IsRetryable(impl, e) /\ att < maxR

RECURSIVE Pow2(_)
\* Math.pow(2, attempt)
Pow2(n) == IF n = 0 THEN 1 ELSE 2 * Pow2(n - 1)

\* Math.random() * 500 lies in [0, 500); the legacy function adds no jitter
JitterSamples == {0, JitterMs - 1}

\* a backoff that forgets the exponent
BackoffDelayFlat(impl, delayMs, att, jitter) ==
    delayMs + (IF impl = "legacy" THEN 0 ELSE jitter)

\* const delay = (retryDelayMs * Math.pow(2, attempt)) + jitter
BackoffDelay(impl, delayMs, att, jitter) ==
    delayMs * Pow2(att) + (IF impl = "legacy" THEN 0 ELSE jitter)

\* which branch of the final-message construction is taken
FinalErrorKind(impl, e) ==
    IF impl = "legacy"
    THEN IF \E tok \in StatusTokens : Includes(e, tok) THEN "status" ELSE "api"
    ELSE IF IsBlockingError(impl, e) THEN "blocked"
         ELSE IF \E tok \in StatusTokens \cup {"internal", "unavailable"} : Includes(e, tok)
              THEN "status"
              ELSE IF Includes(e, "deadline_exceeded") THEN "timeout" ELSE "api"

\* what the McpError thrown by the catch block carries: the provider name,
\* the underlying message (a fixed text in its place for a timeout) and an
\* attempt count, <<>> when the message names none
FinalErrorMessage(impl, provider, e) ==
    [provider |-> IF impl = "legacy" THEN "vertex" ELSE provider,
     cause |-> IF FinalErrorKind(impl, e) = "timeout"
               THEN Msg({"deadline_exceeded"}) ELSE e,
     attempts |-> <<>>]

\* what the McpError placed after the loop carries
MaxRetriesMessage(impl, provider, maxR) ==
    [provider |-> IF impl = "legacy" THEN "vertex" ELSE provider,
     cause |-> MaxRetriesError,
     attempts |-> <<maxR + 1>>]

\* ----------------------------------------------------- one attempt's body
Ok(t) == [ok |-> TRUE, text |-> t, err |-> NoMsg]
Fail(e) == [ok |-> FALSE, text |-> <<>>, err |-> e]

\* the code paths written against the @google-cloud/vertexai response shape
UsesVertexPath(impl, provider) ==
    impl = "legacy" \/ (impl = "dual" /\ provider = "vertex")

\* blockReason && blockReason !== 'BLOCK_REASON_UNSPECIFIED' && blockReason !== 'OTHER'
VertexBlocks(blockReason) ==
    blockReason \notin {"none", "BLOCK_REASON_UNSPECIFIED", "OTHER"}

\* if (blockReason) throw ...
GeminiBlocks(blockReason) == blockReason # "none"

\* new Error(`... Content generation blocked. ... Reason: ${blockReason}`)
BlockedReport(reason) ==
    Msg({"content generation blocked"} \cup (IF reason = "SAFETY" THEN {"safety"} ELSE {}))

\* the inner catch around generateContent of the Gemini/GenAI path
ConvertCallError(e) ==
    IF Includes(e, "safety") \/ Includes(e, "prompt blocked") \/ e.status = "BLOCKED"
    THEN BlockedError(e)
    ELSE e

\* the block / finish-reason checks made on a response or stream aggregate
BlockCheck(impl, provider, resp) ==
    IF UsesVertexPath(impl, provider)
    THEN IF VertexBlocks(resp.blockReason) THEN BlockedReport(resp.blockReason) ELSE NoMsg
    ELSE IF GeminiBlocks(resp.blockReason) THEN BlockedReport(resp.blockReason)
         ELSE IF resp.finishReason = "SAFETY" THEN BlockedReport("SAFETY") ELSE NoMsg

\* the non-streaming branch of the try block
NonStreamingAttempt(impl, provider, threw, resp) ==
    IF threw # NoMsg
    THEN Fail(IF UsesVertexPath(impl, provider) THEN threw ELSE ConvertCallError(threw))
    ELSE IF BlockCheck(impl, provider, resp) # NoMsg
         THEN Fail(BlockCheck(impl, provider, resp))
         ELSE IF resp.text = <<>> THEN Fail(ExtractError) ELSE Ok(resp.text)

\* a chunk loop that gives up on any extraction error
ChunkBlocksOnAnyError(impl, provider, c) ==
    ~UsesVertexPath(impl, provider) /\ c.kind = "throw"

\* does extracting this chunk's text end the attempt with a blocked error
ChunkBlocks(impl, provider, c) ==
    /\ ~UsesVertexPath(impl, provider)
    /\ c.kind = "throw"
    /\ Includes(c.err, "safety")

\* an accumulator declared once for the call: an attempt starts with the
\* text the attempt before it left
NewAccumulatorKept(acc) == acc

\* let accumulatedText = "" at the head of the streaming branch, inside the
\* loop body: each attempt starts with an empty accumulator
NewAccumulator(acc) == <<>>

\* an accumulator that puts each fragment in front of the text so far
AccumulateChunkPrepend(impl, provider, acc, c) ==
    IF c.kind = "text" THEN c.text \o acc ELSE acc

\* an accumulator that assigns instead of appending
AccumulateChunkOverwrite(impl, provider, acc, c) ==
    IF c.kind = "text" THEN c.text ELSE acc

\* the accumulator after one stream item
AccumulateChunk(impl, provider, acc, c) ==
    IF c.kind = "text" THEN acc \o c.text ELSE acc

\* the stream items each SDK can deliver: plain data for the Vertex SDK,
\* objects whose text accessor may throw for the Gemini/GenAI SDKs
StubChunks(impl, provider) ==
    {TextChunk(t) : t \in ChunkTexts} \cup
    (IF UsesVertexPath(impl, provider) THEN {} ELSE {ThrowChunk(e) : e \in ChunkErrors})

\* a streaming branch without the last extraction from the aggregate
AggregateFallbackNone(impl, acc, agg) == acc

\* if (!accumulatedText) accumulatedText = <first candidate text of the aggregate>
AggregateFallback(impl, acc, agg) ==
    IF impl = "genai" THEN acc
    ELSE IF acc = <<>> THEN agg.text ELSE acc

\* the inner catch around `await streamResult.response` (Gemini path of "dual")
ConvertAggregateError(impl, provider, e) ==
    IF impl = "dual" /\ provider = "gemini" /\ Includes(e, "safety")
    THEN BlockedError(e)
    ELSE e

\* what follows the chunk loop of the streaming branch
FinishStream(impl, provider, acc, nchunks, aggThrew, agg) ==
    IF aggThrew # NoMsg THEN Fail(ConvertAggregateError(impl, provider, aggThrew))
    ELSE IF impl = "genai"
    THEN IF nchunks > 0 /\ BlockCheck(impl, provider, agg) # NoMsg
         THEN Fail(BlockCheck(impl, provider, agg))
         ELSE IF acc = <<>> THEN Fail(EmptyStreamError) ELSE Ok(acc)
    ELSE IF BlockCheck(impl, provider, agg) # NoMsg
         THEN Fail(BlockCheck(impl, provider, agg))
         ELSE IF AggregateFallback(impl, acc, agg) = <<>>
              THEN Fail(EmptyStreamError)
              ELSE Ok(AggregateFallback(impl, acc, agg))

\* the end-of-stream objects a stub can deliver; the GenAI stream has no
\* aggregate, its last chunk carries the signals and its text is in the chunks
StubAggregates(impl, nchunks) ==
    IF impl = "genai"
    THEN IF nchunks = 0 THEN {NoResp} ELSE {r \in Responses : r.text = <<>>}
    ELSE Responses

\* `await streamResult.response` can reject; the GenAI stream has no such await
StubAggregateErrors(impl) == IF impl = "genai" THEN {} ELSE RawMessages

\* -------------------------------------------- the tool list and the request
\* an absent or empty tool list: neither carries a declaration
NoTools == <<>>

\* the longest tool list considered
MaxTools == 2

\* a tool object is identified by the one key it carries
ToolKinds == {"googleSearch", "googleSearchRetrieval", "functionDeclarations"}
ToolLists == UNION {[1..n -> ToolKinds] : n \in 0..MaxTools}
Prompts == [useWebSearch : BOOLEAN, enableFunctionCalling : BOOLEAN]

\* return useWebSearch ? [{ googleSearch: {} }] : undefined
getToolsForApi(enableFunctionCalling, useWebSearch) ==
    IF useWebSearch THEN <<"googleSearch">> ELSE NoTools

\* the key each function takes for the search declaration
SearchKey(impl) == IF impl = "legacy" THEN "googleSearch" ELSE "googleSearchRetrieval"

\* isGroundingRequested / isGrounding: tools.some(tool => <search key present>)
IsGroundingRequested(impl, ts) == \E i \in DOMAIN ts : ts[i] = SearchKey(impl)

\* tools.filter(tool => tool.googleSearchRetrieval)
OnlySearch(ts) == SelectSeq(ts, LAMBDA k : k = "googleSearchRetrieval")

\* filteredToolsForVertex of callGenerativeAI
FilteredToolsForVertex(provider, ts) ==
    IF provider = "gemini" THEN NoTools
    ELSE IF IsGroundingRequested("dual", ts) /\ Len(ts) > 1 THEN OnlySearch(ts)
         ELSE ts

\* the SDK surface the request goes through
Surface(impl, provider, ts) ==
    IF impl = "genai" THEN "models"
    ELSE IF impl = "dual" /\ provider = "gemini" THEN "generative-ai"
         ELSE IF IsGroundingRequested(impl, ts) THEN "preview" ELSE "default"

\* the tools field of the request that is sent
RequestTools(impl, provider, ts) ==
    IF impl = "dual" THEN FilteredToolsForVertex(provider, ts)
    ELSE ts

\* the request of one provider invocation
BuildRequest(impl, provider, streaming, ts) ==
    [surface |-> Surface(impl, provider, ts),
     method  |-> IF streaming THEN "generateContentStream" ELSE "generateContent",
     tools   |-> RequestTools(impl, provider, ts)]

\* a loop variable incremented twice per retry
NextAttemptTwice(att) == att + 2

\* the loop variable after `continue`
NextAttempt(att) == att + 1

\* ---------------------------------------- one call, suspension by suspension
\* the locals of one invocation: the loop variable and the accumulator
NewFrame == [attempt |-> 0, accumulatedText |-> <<>>]
NoOutcome == [ok |-> FALSE, text |-> <<>>, err |-> NoMsg]
InitialCall == [frame |-> NewFrame, at |-> [pc |-> "start", k |-> 0], out |-> NoOutcome]

\* what a provider stub does on one attempt: reject the call, or deliver
\* the chunks (streaming) or the response text (non-streaming)
Reject == [callErr |-> Msg({"503"}), chunks |-> <<>>, text |-> <<>>]
Deliver(cs, t) == [callErr |-> NoMsg, chunks |-> cs, text |-> t]

\* the provider behaviours a call can meet, one entry per attempt
Scripts ==
    {<<Reject, Deliver(<<TextChunk(<<"a">>), TextChunk(<<"b">>)>>, <<"a">>)>>,
     <<Deliver(<<TextChunk(<<"b">>)>>, <<"a">>), Reject>>,
     <<Deliver(<<>>, <<>>), Reject>>,
     <<Reject, Reject>>}

\* the state of a call after it resumes once: at the dispatch, at the
\* provider call, at a chunk or the end of the stream, or after the sleep
CallStep(impl, provider, streaming, maxR, st, sc) ==
    LET f == st.frame
        d == sc[IF f.attempt < Len(sc) THEN f.attempt + 1 ELSE Len(sc)]
        resp == [text |-> d.text, blockReason |-> "none", finishReason |-> "STOP"]
        agg == [text |-> <<>>, blockReason |-> "none", finishReason |-> "STOP"]
        Caught(out) ==
            IF ShouldRetry(impl, out.err, f.attempt, maxR)
            THEN [st EXCEPT !.at = [pc |-> "sleep", k |-> 0]]
            ELSE [st EXCEPT !.at = [pc |-> "failed", k |-> 0], !.out = out]
        Ended(out) ==
            IF out.ok
            THEN [st EXCEPT !.at = [pc |-> "returned", k |-> 0], !.out = out]
            ELSE Caught(out)
    IN CASE st.at.pc = "start" ->
              [st EXCEPT !.frame = NewFrame, !.at = [pc |-> "attempt", k |-> 0]]
         [] st.at.pc = "attempt" ->
              IF ~streaming
              THEN Ended(NonStreamingAttempt(impl, provider, d.callErr, resp))
              ELSE IF d.callErr # NoMsg THEN Caught(Fail(d.callErr))
                   ELSE [st EXCEPT !.frame.accumulatedText = <<>>,
                                   !.at = [pc |-> "stream", k |-> 0]]
         [] st.at.pc = "stream" ->
              IF st.at.k < Len(d.chunks)
              THEN [st EXCEPT !.frame.accumulatedText =
                                  AccumulateChunk(impl, provider, @, d.chunks[st.at.k + 1]),
                              !.at.k = @ + 1]
              ELSE Ended(FinishStream(impl, provider, f.accumulatedText,
                                      Len(d.chunks), NoMsg, agg))
         [] st.at.pc = "sleep" ->
              IF NextAttempt(f.attempt) <= maxR
              THEN [st EXCEPT !.frame.attempt = NextAttempt(@),
                              !.at = [pc |-> "attempt", k |-> 0]]
              ELSE [st EXCEPT !.frame.attempt = NextAttempt(@),
                              !.at = [pc |-> "failed", k |-> 0],
                              !.out = Fail(MaxRetriesError)]
         [] OTHER -> st

\* the call is over
Finished(st) == st.at.pc \in {"returned", "failed"}

RECURSIVE RunAlone(_, _, _, _, _, _)
\* the states a call goes through when it is the only one running
RunAlone(impl, provider, streaming, maxR, st, sc) ==
    {st} \cup
    (IF Finished(st) THEN {}
     ELSE RunAlone(impl, provider, streaming, maxR,
                   CallStep(impl, provider, streaming, maxR, st, sc), sc))

\* the most tool calls in flight at once
NumCalls == 2
CallIds == 1..NumCalls

\* locals declared at module level: every call works on the same ones
FrameShared(c) == 1

\* the activation frame that holds the locals of call c: one per invocation
Frame(c) == c

\* ------------------------------------------- configuration and its resolver
\* an environment variable that is unset or empty: both are falsy to the code
Unset == ""

DEFAULT_TEMPERATURE == 0
DEFAULT_MAX_OUTPUT_TOKENS == 8192
LEGACY_MAX_OUTPUT_TOKENS == 65535
DEFAULT_MAX_RETRIES == 3
DEFAULT_RETRY_DELAY_MS == 1000
DEFAULT_MODEL_ID == "gemini-2.5-pro-exp-03-25"
DEFAULT_LOCATION == "us-central1"

\* the provider, credential and model variables of an environment
ConnectionEnvs ==
    [AI_PROVIDER : {Unset, "gemini", "GEMINI", "openai"},
     GOOGLE_CLOUD_PROJECT : {Unset, "proj"},
     GOOGLE_CLOUD_LOCATION : {Unset, "europe-west1"},
     GEMINI_API_KEY : {Unset, "key"},
     VERTEX_MODEL_ID : {Unset, "model-v"},
     GEMINI_MODEL_ID : {Unset, "model-g"}]

\* the tunables of an environment, as the strings the process receives
TunableEnvs ==
    [AI_TEMPERATURE : {Unset, "0.7", "1.5", "2.0", "2.5", "-0.5", "abc"},
     AI_USE_STREAMING : {Unset, "false", "FALSE", "yes"},
     AI_MAX_OUTPUT_TOKENS : {Unset, "100", "0", "-1", "abc"},
     AI_MAX_RETRIES : {Unset, "0", "2.9", "abc"},
     AI_RETRY_DELAY_MS : {Unset, "250", "-1", "abc"}]

\* the environments considered: every connection setting with the tunables
\* unset, and every tunable setting with one connection setting
BaseEnv ==
    [AI_PROVIDER |-> Unset, GOOGLE_CLOUD_PROJECT |-> "proj",
     GOOGLE_CLOUD_LOCATION |-> Unset, GEMINI_API_KEY |-> Unset,
     VERTEX_MODEL_ID |-> Unset, GEMINI_MODEL_ID |-> Unset,
     AI_TEMPERATURE |-> Unset, AI_USE_STREAMING |-> Unset,
     AI_MAX_OUTPUT_TOKENS |-> Unset, AI_MAX_RETRIES |-> Unset,
     AI_RETRY_DELAY_MS |-> Unset]
Envs == {c @@ BaseEnv : c \in ConnectionEnvs} \cup {t @@ BaseEnv : t \in TunableEnvs}

\* String.prototype.toLowerCase on the values considered
ToLowerCase(str) ==
    CASE str = "GEMINI" -> "gemini"
      [] str = "FALSE" -> "false"
      [] OTHER -> str

\* parseInt(str, 10): <<n>> for a number, <<>> for NaN
ParseInt(str) ==
    CASE str = "0" -> <<0>>
      [] str = "100" -> <<100>>
      [] str = "250" -> <<250>>
      [] str = "-1" -> <<-1>>
      [] str = "2.9" -> <<2>>
      [] OTHER -> <<>>

\* parseFloat(str) in tenths: <<n>> for a number, <<>> for NaN
ParseFloat(str) ==
    CASE str = "0.7" -> <<7>>
      [] str = "1.5" -> <<15>>
      [] str = "2.0" -> <<20>>
      [] str = "-0.5" -> <<-5>>
      [] str = "2.5" -> <<25>>
      [] OTHER -> <<>>

\* an integer tunable: the parsed value when the variable is set and parses
\* to a number not below lo, the default otherwise
IntTunable(raw, lo, default) ==
    IF raw # Unset /\ ParseInt(raw) # <<>> /\ ParseInt(raw)[1] >= lo
    THEN ParseInt(raw)[1]
    ELSE default

\* the temperature in tenths: the parsed value when it lies in [0, hi]
Temperature(raw, hi) ==
    IF raw # Unset /\ ParseFloat(raw) # <<>>
       /\ ParseFloat(raw)[1] >= 0 /\ ParseFloat(raw)[1] <= hi
    THEN ParseFloat(raw)[1]
    ELSE DEFAULT_TEMPERATURE

\* getAIProvider
getAIProvider(env) ==
    IF ToLowerCase(env.AI_PROVIDER) = "gemini" THEN "gemini" ELSE "vertex"

\* the fields every resolver returns; tempMax in tenths
CommonConfig(env, tempMax, tokens) ==
    [temperature |-> Temperature(env.AI_TEMPERATURE, tempMax),
     useStreaming |-> ToLowerCase(env.AI_USE_STREAMING) # "false",
     maxOutputTokens |-> IntTunable(env.AI_MAX_OUTPUT_TOKENS, 1, tokens),
     maxRetries |-> IntTunable(env.AI_MAX_RETRIES, 0, DEFAULT_MAX_RETRIES),
     retryDelayMs |-> IntTunable(env.AI_RETRY_DELAY_MS, 0, DEFAULT_RETRY_DELAY_MS)]

\* process.env.X || fallback
OrElse(str, fallback) == IF str # Unset THEN str ELSE fallback

\* getAIConfig
getAIConfig(env) ==
    CommonConfig(env, 20, DEFAULT_MAX_OUTPUT_TOKENS) @@
    [provider |-> getAIProvider(env),
     modelId |-> IF getAIProvider(env) = "vertex"
                 THEN OrElse(env.VERTEX_MODEL_ID, DEFAULT_MODEL_ID)
                 ELSE OrElse(env.GEMINI_MODEL_ID, DEFAULT_MODEL_ID),
     gcpProjectId |-> env.GOOGLE_CLOUD_PROJECT,
     gcpLocation |-> OrElse(env.GOOGLE_CLOUD_LOCATION, DEFAULT_LOCATION),
     geminiApiKey |-> env.GEMINI_API_KEY]

\* getVertexAIConfig, the resolver the legacy function is called with; its
\* variables are named VERTEX_AI_* and play the same roles
getVertexAIConfig(env) ==
    CommonConfig(env, 10, LEGACY_MAX_OUTPUT_TOKENS) @@
    [modelId |-> OrElse(env.VERTEX_MODEL_ID, DEFAULT_MODEL_ID)]

\* the resolver each client function is used with
Resolve(impl, env) ==
    IF impl = "legacy" THEN getVertexAIConfig(env) ELSE getAIConfig(env)

\* a resolver that writes the value it settled on back to the environment
EnvAfterResolveStored(env) ==
    [env EXCEPT !.AI_MAX_RETRIES = IF @ = Unset THEN "0" ELSE @]

\* what the resolver leaves of the environment: it only reads process.env
EnvAfterResolve(env) == env

\* a startup check that knows the project identifier only
validateConfigProjectOnly(impl, env) == env.GOOGLE_CLOUD_PROJECT # Unset

\* validateConfig and the module-level validation: TRUE when the process
\* may go on, FALSE when it exits with status 1
validateConfig(impl, env) ==
    IF impl = "legacy" THEN env.GOOGLE_CLOUD_PROJECT # Unset
    ELSE /\ ~(getAIProvider(env) = "vertex" /\ env.GOOGLE_CLOUD_PROJECT = Unset)
         /\ ~(getAIProvider(env) = "gemini" /\ env.GEMINI_API_KEY = Unset)

\* the client the initialization builds, "none" when it gives up
InitializeClient(impl, cfg) ==
    CASE impl = "legacy" -> "vertexai"
      [] impl = "dual" ->
            IF cfg.provider = "vertex"
            THEN IF cfg.gcpProjectId = Unset \/ cfg.gcpLocation = Unset
                 THEN "none" ELSE "vertexai"
            ELSE IF cfg.geminiApiKey = Unset THEN "none" ELSE "apikey"
      [] impl = "genai" ->
            IF cfg.geminiApiKey # Unset THEN "apikey"
            ELSE IF cfg.gcpProjectId # Unset /\ cfg.gcpLocation # Unset
                 THEN "vertexai" ELSE "none"

\* ------------------------------------------------ the workspace and its paths
\* A path string is the sequence of its characters; a parsed path is the
\* sequence of its segments, the root being the empty sequence.
Sep == "/"

DotDot == <<".", ".">>

\* process.cwd(): the workspace root /w
Cwd == << <<"w">> >>

\* an argument that is not a string (a missing field, a number)
NotAString == [typeof |-> "undefined", absolute |-> FALSE, segs |-> <<>>]

\* the path arguments a caller sends: f, d/g, ../wx/f, ../o/f, /w, /wx
RequestedPaths ==
    { [typeof |-> "string", absolute |-> FALSE, segs |-> << <<"f">> >>],
      [typeof |-> "string", absolute |-> FALSE, segs |-> << <<"d">>, <<"g">> >>],
      [typeof |-> "string", absolute |-> FALSE,
       segs |-> << DotDot, <<"w", "x">>, <<"f">> >>],
      [typeof |-> "string", absolute |-> FALSE,
       segs |-> << DotDot, <<"o">>, <<"f">> >>],
      [typeof |-> "string", absolute |-> TRUE, segs |-> << <<"w">> >>],
      [typeof |-> "string", absolute |-> TRUE, segs |-> << <<"w", "x">> >>] }

\* the characters of an absolute path
RECURSIVE PathString(_)
PathString(segs) ==
    IF segs = <<>> THEN <<>>
    ELSE <<Sep>> \o Head(segs) \o PathString(Tail(segs))

RECURSIVE Normalize(_, _)
Normalize(done, rest) ==
    IF rest = <<>> THEN done
    ELSE IF Head(rest) = DotDot
         THEN Normalize(IF done = <<>> THEN done
                        ELSE SubSeq(done, 1, Len(done) - 1), Tail(rest))
         ELSE Normalize(Append(done, Head(rest)), Tail(rest))

\* path.resolve(process.cwd(), requestedPath)
PathResolve(requestedPath) ==
    Normalize(IF requestedPath.absolute THEN <<>> ELSE Cwd, requestedPath.segs)

\* path.dirname of an absolute path
Dirname(segs) == IF segs = <<>> THEN segs ELSE SubSeq(segs, 1, Len(segs) - 1)

\* String.prototype.startsWith
StartsWith(str, prefix) ==
    /\ Len(prefix) <= Len(str)
    /\ SubSeq(str, 1, Len(prefix)) = prefix

NoThrow == [class |-> "none", code |-> "none", message |-> "none"]

Thrown(class, code, message) ==
    [class |-> class, code |-> code, message |-> message]

\* validateWorkspacePath: the resolved path, or the error thrown
validateWorkspacePath(requestedPath) ==
    IF requestedPath.typeof # "string"
    THEN [ok |-> FALSE, path |-> <<>>,
          error |-> Thrown("TypeError", "none", "ERR_INVALID_ARG_TYPE")]
    ELSE LET absolutePath == PathResolve(requestedPath) IN
         IF ~StartsWith(PathString(absolutePath), PathString(Cwd))
         THEN [ok |-> FALSE, path |-> <<>>,
               error |-> Thrown("Error", "none", "Path traversal attempt detected")]
         ELSE [ok |-> TRUE, path |-> absolutePath, error |-> NoThrow]

\* the content of a directory entry and of the file f the server finds
Directory == <<"<dir>">>

OldContent == <<"old">>

\* what exists when the server starts: /, /w, /w/f, /wx, /wx/f, /o, /o/f
InitialFiles ==
    LET dirs == { <<>>, Cwd, << <<"w", "x">> >>, << <<"o">> >> }
        regular == { Cwd \o << <<"f">> >>, << <<"w", "x">>, <<"f">> >>,
                     << <<"o">>, <<"f">> >> }
    IN  [p \in dirs \cup regular |-> IF p \in dirs THEN Directory ELSE OldContent]

\* one entry of the text a tool returns: the requested path it is about,
\* whether it reports an error, and its body
Entry(of, failed, body) == [of |-> of, failed |-> failed, body |-> body]

\* a handler's progress: the filesystem, the accesses made, the calls of the
\* client function made, the text built so far and the exception in flight
Started(fl) ==
    [files |-> fl, log |-> <<>>, generated |-> 0, text |-> <<>>,
     error |-> NoThrow]

Throw(s, err) == IF s.error # NoThrow THEN s ELSE [s EXCEPT !.error = err]

FsError(code) == Thrown("Error", "none", code)

\* fs.readFile, fs.readdir, fs.stat
FsRead(s, op, p) ==
    IF s.error # NoThrow THEN s
    ELSE [s EXCEPT
            !.log = Append(@, [op |-> op, path |-> p]),
            !.error = IF p \notin DOMAIN s.files THEN FsError("ENOENT")
                      ELSE IF op = "readFile" /\ s.files[p] = Directory
                      THEN FsError("EISDIR")
                      ELSE IF op = "readdir" /\ s.files[p] # Directory
                      THEN FsError("ENOTDIR")
                      ELSE NoThrow]

\* fs.mkdir(p, { recursive: true }): fails when a file is in the way
FsMkdir(s, p) ==
    IF s.error # NoThrow THEN s
    ELSE LET prefixes == {SubSeq(p, 1, n) : n \in 0..Len(p)}
             logged == [s EXCEPT !.log = Append(@, [op |-> "mkdir", path |-> p])]
         IN  IF \E q \in prefixes \cap DOMAIN s.files : s.files[q] # Directory
             THEN [logged EXCEPT !.error = FsError("EEXIST")]
             ELSE [logged EXCEPT
                     !.files = [q \in prefixes \ DOMAIN @ |-> Directory] @@ @]

\* fs.writeFile(p, content)
FsWriteFile(s, p, content) ==
    IF s.error # NoThrow THEN s
    ELSE LET logged ==
                 [s EXCEPT !.log = Append(@, [op |-> "writeFile", path |-> p])]
         IN  IF Dirname(p) \notin DOMAIN s.files
             THEN [logged EXCEPT !.error = FsError("ENOENT")]
             ELSE IF s.files[Dirname(p)] # Directory
             THEN [logged EXCEPT !.error = FsError("ENOTDIR")]
             ELSE IF p \in DOMAIN s.files /\ s.files[p] = Directory
             THEN [logged EXCEPT !.error = FsError("EISDIR")]
             ELSE [logged EXCEPT !.files = (p :> content) @@ @]

\* fs.rename: the source and what lies under it move to the destination
FsRename(s, from, to) ==
    IF s.error # NoThrow THEN s
    ELSE LET logged ==
                 [s EXCEPT !.log = Append(@, [op |-> "rename", path |-> from]) \o
                                   <<[op |-> "rename", path |-> to]>>]
             moved == {f \in DOMAIN s.files : StartsWith(f, from)}
             target(f) == to \o SubSeq(f, Len(from) + 1, Len(f))
             under == {f \in DOMAIN s.files : StartsWith(f, to) /\ f # to}
         IN  IF from \notin DOMAIN s.files
             THEN [logged EXCEPT !.error = FsError("ENOENT")]
             ELSE IF StartsWith(to, from) THEN [logged EXCEPT !.error = FsError("EINVAL")]
             ELSE IF Dirname(to) \notin DOMAIN s.files
             THEN [logged EXCEPT !.error = FsError("ENOENT")]
             ELSE IF /\ to \in DOMAIN s.files
                     /\ (s.files[to] = Directory) # (s.files[from] = Directory)
             THEN [logged EXCEPT !.error = FsError("ENOTDIR")]
             ELSE IF under # {} THEN [logged EXCEPT !.error = FsError("ENOTEMPTY")]
             ELSE [logged EXCEPT
                     !.files = [q \in (DOMAIN @ \ moved) \cup {target(f) : f \in moved}
                                  |-> IF \E f \in moved : target(f) = q
                                      THEN @[CHOOSE f \in moved : target(f) = q]
                                      ELSE @[q]]]

\* ------------------------------------------------------ the tool call handler
filesystemToolNames ==
    {"read_file_content", "read_multiple_files_content", "write_file_content",
     "edit_file_content", "create_directory", "list_directory_contents",
     "get_directory_tree", "move_file_or_directory", "search_filesystem",
     "get_filesystem_info"}

SaveToolNames ==
    {"save_generate_project_guidelines", "save_doc_snippet",
     "save_topic_explanation", "save_answer_query_direct",
     "save_answer_query_websearch"}

\* a tool that only asks the model
AiToolNames == {"answer_query_websearch"}

\* toolMap: the tools the server knows
ToolNames == filesystemToolNames \cup SaveToolNames \cup AiToolNames

MaxPaths == 2
MaxEdits == 2

PathArgs == RequestedPaths \cup {NotAString}

\* the requested paths that name a file f: f, ../wx/f, ../o/f
FilePaths == {p \in RequestedPaths : p.segs[Len(p.segs)] = <<"f">>}

\* an edit is told by whether its oldText is found in the file
EditLists ==
    UNION {[1..n -> {"match", "nomatch"}] : n \in 0..MaxEdits}

\* request.params.arguments: the path (path, output_path, source), the
\* destination, the paths and the edits; rest tells whether the other fields
\* (content, query, pattern, the array type of paths) fit the schema
NoArgs ==
    [path |-> NotAString, destination |-> NotAString, paths |-> <<>>,
     edits |-> <<>>, dryRun |-> FALSE, rest |-> TRUE]

ArgsFor(toolName) ==
    CASE toolName = "move_file_or_directory" ->
            {[NoArgs EXCEPT !.path = p, !.destination = d] :
                p \in PathArgs, d \in PathArgs}
      [] toolName = "edit_file_content" ->
            {[NoArgs EXCEPT !.path = p, !.edits = e, !.dryRun = b] :
                p \in PathArgs, e \in EditLists, b \in BOOLEAN}
      [] toolName = "read_multiple_files_content" ->
            {[NoArgs EXCEPT !.paths = ps, !.rest = r] :
                ps \in UNION {[1..n -> FilePaths] : n \in 0..MaxPaths},
                r \in BOOLEAN}
      [] toolName \in filesystemToolNames \cup SaveToolNames ->
            {[NoArgs EXCEPT !.path = p, !.rest = r] :
                p \in PathArgs, r \in BOOLEAN}
      [] OTHER -> {[NoArgs EXCEPT !.rest = r] : r \in BOOLEAN}

\* a schema that accepts whatever it is given
SchemaParseLenient(toolName, args) == TRUE

\* XArgsSchema.parse(args) succeeds
SchemaParse(toolName, args) ==
    /\ args.rest
    /\ toolName \in (filesystemToolNames \ {"read_multiple_files_content"})
                    \cup SaveToolNames
          => args.path.typeof = "string"
    /\ toolName = "move_file_or_directory"
          => args.destination.typeof = "string"

ZodError == Thrown("ZodError", "none", "invalid arguments")

McpError(code, message) == Thrown("McpError", code, message)

\* toolDefinition.buildPrompt of a tool that only asks the model: safeParse,
\* and InvalidParams when it fails
buildPrompt(toolName, args) ==
    IF SchemaParse(toolName, args) THEN NoThrow
    ELSE McpError("InvalidParams", "Invalid arguments")

\* parsed.content of write_file_content
WrittenContent == <<"new">>

\* how a call of the client function ends: with a text, or with the final
\* error of a blocked, exhausted or fatal call
GenTexts == {"t1", "t2"}

GenOutcomes == GenTexts \cup {"blocked", "exhausted", "fatal"}

\* await callVertexAIWithOptionalFunctionCalling(...)
Generate(s, gen) ==
    IF s.error # NoThrow THEN s
    ELSE IF gen \in GenTexts
    THEN [s EXCEPT !.generated = @ + 1,
                   !.text = <<Entry(NotAString, FALSE, <<gen>>)>>]
    ELSE [s EXCEPT !.generated = @ + 1,
                   !.error = McpError("InternalError", gen)]

\* the success message of a tool that changes the filesystem
Done(s, requestedPath) ==
    IF s.error # NoThrow THEN s
    ELSE [s EXCEPT !.text = <<Entry(requestedPath, FALSE, <<"Successfully">>)>>]

\* the save_* branches: parse, generate, validate the output path, write
SaveTool(toolName, args, gen, fl) ==
    IF ~SchemaParse(toolName, args) THEN Throw(Started(fl), ZodError)
    ELSE LET generatedContent == Generate(Started(fl), gen)
             validOutputPath == validateWorkspacePath(args.path)
         IN  IF generatedContent.error # NoThrow THEN generatedContent
             ELSE IF ~validOutputPath.ok
             THEN Throw(generatedContent, validOutputPath.error)
             ELSE Done(FsWriteFile(FsMkdir(generatedContent,
                                           Dirname(validOutputPath.path)),
                                   validOutputPath.path,
                                   generatedContent.text[1].body),
                       args.path)

\* the edits applied in order: each adds the marker of its replacement
RECURSIVE ApplyEdits(_, _)
ApplyEdits(content, edits) ==
    IF edits = <<>> THEN content
    ELSE ApplyEdits(Append(content, "+"), Tail(edits))

\* an editor that saves the file after each edit it applied, dryRun or not,
\* and so leaves the edits before a failing one on disk
applyFileEditsSavingEach(s, requestedPath, filePath, edits, dryRun) ==
    LET read == FsRead(s, "readFile", filePath)
        content == s.files[filePath]
        stop == CHOOSE i \in 1..(Len(edits) + 1) :
                    /\ i = Len(edits) + 1 \/ edits[i] = "nomatch"
                    /\ \A j \in 1..(i - 1) : edits[j] = "match"
        modifiedContent == ApplyEdits(content, SubSeq(edits, 1, stop - 1))
        written == FsWriteFile(read, filePath, modifiedContent)
    IN  IF written.error # NoThrow THEN written
        ELSE IF stop <= Len(edits)
        THEN Throw(written, FsError("Could not find match"))
        ELSE [written EXCEPT
                !.text = <<Entry(requestedPath, FALSE,
                                 <<"diff">> \o content \o <<"=>">> \o modifiedContent)>>]

\* applyFileEdits: read, apply each edit or throw, write unless dryRun,
\* return the diff
applyFileEdits(s, requestedPath, filePath, edits, dryRun) ==
    LET read == FsRead(s, "readFile", filePath)
        content == s.files[filePath]
        modifiedContent == ApplyEdits(content, edits)
        matched ==
            IF \E i \in DOMAIN edits : edits[i] = "nomatch"
            THEN Throw(read, FsError("Could not find match"))
            ELSE read
        written == IF dryRun THEN matched
                   ELSE FsWriteFile(matched, filePath, modifiedContent)
    IN  IF written.error # NoThrow THEN written
        ELSE [written EXCEPT
                !.text = <<Entry(requestedPath, FALSE,
                                 <<"diff">> \o content \o <<"=>">> \o modifiedContent)>>]

\* a reader that gives up at the first path it cannot validate or read
RECURSIVE ReadEachFailFast(_, _)
ReadEachFailFast(s, paths) ==
    IF paths = <<>> THEN s
    ELSE LET validPath == validateWorkspacePath(Head(paths))
             read == IF validPath.ok
                     THEN FsRead(s, "readFile", validPath.path)
                     ELSE Throw(s, validPath.error)
         IN  IF read.error # NoThrow THEN read
             ELSE ReadEachFailFast(
                    [read EXCEPT !.text = Append(@, Entry(Head(paths), FALSE,
                                                          s.files[validPath.path]))],
                    Tail(paths))

\* read_multiple_files_content: each path is validated and read on its own,
\* and what it throws becomes its entry of the result
RECURSIVE ReadEach(_, _)
ReadEach(s, paths) ==
    IF paths = <<>> THEN s
    ELSE LET validPath == validateWorkspacePath(Head(paths))
             read == IF validPath.ok
                     THEN FsRead(s, "readFile", validPath.path)
                     ELSE Throw(s, validPath.error)
             entry == IF read.error # NoThrow
                      THEN Entry(Head(paths), TRUE, <<read.error.message>>)
                      ELSE Entry(Head(paths), FALSE, s.files[validPath.path])
         IN  ReadEach([read EXCEPT !.error = NoThrow, !.text = Append(@, entry)],
                      Tail(paths))

\* the filesystem switch
FilesystemTool(toolName, args, fl) ==
    IF ~SchemaParse(toolName, args) THEN Throw(Started(fl), ZodError)
    ELSE
    LET s == Started(fl)
        validPath == validateWorkspacePath(args.path)
        validDestPath == validateWorkspacePath(args.destination)
        invalid == Throw(s, validPath.error)
    IN  CASE toolName = "read_multiple_files_content" ->
                ReadEach(s, args.paths)
          [] toolName = "edit_file_content" ->
                IF args.edits = <<>>
                THEN Throw(s, McpError("InvalidParams", "edits cannot be empty"))
                ELSE IF ~validPath.ok THEN invalid
                ELSE applyFileEdits(s, args.path, validPath.path, args.edits,
                                    args.dryRun)
          [] toolName = "move_file_or_directory" ->
                IF args.path = args.destination
                THEN Throw(s, McpError("InvalidParams", "same source and destination"))
                ELSE IF ~validPath.ok THEN invalid
                ELSE IF ~validDestPath.ok THEN Throw(s, validDestPath.error)
                ELSE Done(FsRename(FsMkdir(s, Dirname(validDestPath.path)),
                                   validPath.path, validDestPath.path),
                          args.path)
          [] OTHER ->
                IF ~validPath.ok THEN invalid
                ELSE CASE toolName = "read_file_content" ->
                            LET read == FsRead(s, "readFile", validPath.path)
                            IN  IF read.error # NoThrow THEN read
                                ELSE [read EXCEPT
                                        !.text = <<Entry(args.path, FALSE,
                                                         s.files[validPath.path])>>]
                       [] toolName = "write_file_content" ->
                            Done(FsWriteFile(FsMkdir(s, Dirname(validPath.path)),
                                             validPath.path, WrittenContent),
                                 args.path)
                       [] toolName = "create_directory" ->
                            Done(FsMkdir(s, validPath.path), args.path)
                       [] toolName = "get_filesystem_info" ->
                            Done(FsRead(s, "stat", validPath.path), args.path)
                       [] OTHER ->
                            Done(FsRead(s, "readdir", validPath.path), args.path)

\* the branch of the tools that only ask the model
AiTool(toolName, args, gen, fl) ==
    Generate(Throw(Started(fl), buildPrompt(toolName, args)), gen)

\* the catch block of the handler: the McpError the caller receives
HandlerCatch(error) ==
    IF error.class = "ZodError"
    THEN McpError("InvalidParams", "Invalid arguments")
    ELSE IF error.class = "McpError" THEN error
    ELSE IF error.message = "ENOENT"
    THEN McpError("InvalidParams", "Path not found")
    ELSE McpError("InternalError", error.message)

\* ------------------------------------------------------------------ state
VARIABLES
    impl,            \* which client function runs
    provider,        \* aiConfig.provider
    useStreaming,    \* aiConfig.useStreaming
    maxRetries,      \* aiConfig.maxRetries
    retryDelayMs,    \* aiConfig.retryDelayMs
    pc,              \* "attempt" | "stream" | "sleep" | "returned" | "failed"
    attempt,         \* the loop variable
    accumulatedText, \* the accumulator of the running streaming attempt
    chunks,          \* the stream items the running attempt has consumed
    result,          \* the text returned to the caller
    finalError,      \* the McpError thrown to the caller
    calls,           \* provider invocations made so far
    sleeps,          \* the backoff sleeps taken so far
    attemptLog,      \* per finished attempt: what the provider did, what was caught
    discarded        \* a failed attempt of this call had accumulated text

\* the state around the call: how the tool list is built and sent
VARIABLES
    prompt,          \* what buildPrompt returned: useWebSearch, enableFunctionCalling
    tools,           \* the tool list handed to the client function
    request,         \* the request the client function sends to the provider
    toolPc           \* "idle" | "prompt" | "built" | "sent"

toolVars == <<prompt, tools, request, toolPc>>

\* the process: its environment, its startup and the configuration it holds
VARIABLES
    env,             \* process.env
    proc,            \* "idle" | "loading" | "validated" | "ready" | "serving" | "exited"
    aiConfig,        \* the module-level configuration of the client module
    client,          \* the module-level SDK client: "none" | "vertexai" | "apikey"
    resolved         \* the configurations handed out so far

cfgVars == <<env, proc, aiConfig, client, resolved>>

\* the tool calls in flight, each suspended at an await
VARIABLES
    script,          \* per call: what the provider does on each of its attempts
    frames,          \* per activation frame: attempt, accumulatedText
    at,              \* per call: where it is suspended
    outcome          \* per call: what it returned or threw

concVars == <<script, frames, at, outcome>>

\* the tool call being handled and the filesystem it works on
VARIABLES
    toolCall,        \* request.params: name and arguments
    hpc,             \* "idle" | "received" | "done"
    files,           \* the paths that exist
    fsLog,           \* the filesystem accesses of the call being handled
    generated,       \* the calls of the client function it made
    reply,           \* what the caller receives: a result or an McpError
    resultText,      \* the entries of the text a result carries
    served           \* tool calls received so far

handlerVars == <<toolCall, hpc, files, fsLog, generated, reply, resultText,
                 served>>

\* everything that is not the state of the retry loop and its configuration
outside == <<toolVars, cfgVars, concVars, handlerVars>>

vars == <<impl, provider, useStreaming, maxRetries, retryDelayMs, pc, attempt,
          accumulatedText, chunks, result, finalError, calls, sleeps, attemptLog,
          discarded, outside>>

config == <<impl, provider, useStreaming, maxRetries, retryDelayMs>>

\* the loop variables of one call
loopVars == <<maxRetries, retryDelayMs, pc, attempt, accumulatedText, chunks,
              result, finalError, calls, sleeps, attemptLog, discarded>>

NoPrompt == [useWebSearch |-> FALSE, enableFunctionCalling |-> FALSE]
NoRequest == [surface |-> "none", method |-> "none", tools |-> NoTools]

\* no tool list is being built
ToolsIdle ==
    /\ prompt = NoPrompt
    /\ tools = NoTools
    /\ request = NoRequest
    /\ toolPc = "idle"

NoConfig == [provider |-> "none"]

\* no process is starting
ConfigIdle ==
    /\ env = BaseEnv
    /\ proc = "idle"
    /\ aiConfig = NoConfig
    /\ client = "none"
    /\ resolved = <<>>

\* no tool call is in flight
ConcIdle ==
    /\ script = <<>>
    /\ frames = <<>>
    /\ at = <<>>
    /\ outcome = <<>>

\* nothing outside the call is in progress
NoCall == [name |-> "none", args |-> NoArgs]
NoReply == Thrown("none", "none", "none")

\* no tool call has been received
HandlerIdle ==
    /\ toolCall = NoCall
    /\ hpc = "idle"
    /\ files = InitialFiles
    /\ fsLog = <<>>
    /\ generated = 0
    /\ reply = NoReply
    /\ resultText = <<>>
    /\ served = 0

OutsideIdle == ToolsIdle /\ ConfigIdle /\ ConcIdle /\ HandlerIdle

NoError == [kind |-> "none", cause |-> NoMsg]

\* one entry of attemptLog: threw is the error the provider raised (at the
\* call, while iterating or at the aggregate), chunkErr the extraction error
\* of the chunk that ended the attempt, resp the response or aggregate that
\* was inspected, err the error that reached the catch block
LogEntry(threw, chunkErr, resp, out) ==
    [threw |-> threw, chunkErr |-> chunkErr, resp |-> resp,
     ok |-> out.ok, err |-> out.err]

\* no call is in progress
LoopIdle ==
    /\ pc = "attempt"
    /\ attempt = 0
    /\ accumulatedText = <<>>
    /\ chunks = <<>>
    /\ result = <<>>
    /\ finalError = NoError
    /\ calls = 0
    /\ sleeps = <<>>
    /\ attemptLog = <<>>
    /\ discarded = FALSE

Init ==
    /\ \E v \in Variants : impl = v.impl /\ provider = v.provider
    /\ useStreaming \in BOOLEAN
    /\ maxRetries \in 0..MaxRetriesBound
    /\ retryDelayMs \in RetryDelays
    /\ pc = "attempt"
    /\ attempt = 0
    /\ accumulatedText = <<>>
    /\ chunks = <<>>
    /\ result = <<>>
    /\ finalError = NoError
    /\ calls = 0
    /\ sleeps = <<>>
    /\ attemptLog = <<>>
    /\ discarded = FALSE
    /\ OutsideIdle

\* return responseText
Return(out, entry) ==
    /\ pc' = "returned"
    /\ result' = out.text
    /\ attemptLog' = Append(attemptLog, entry)
    /\ UNCHANGED <<finalError, sleeps, discarded>>

\* the catch block: sleep and continue, or throw the final McpError
HandleError(out, entry) ==
    /\ attemptLog' = Append(attemptLog, entry)
    /\ discarded' = (discarded \/ accumulatedText' # <<>>)
    /\ IF ShouldRetry(impl, out.err, attempt, maxRetries)
       THEN /\ \E jitter \in JitterSamples :
                 sleeps' = Append(sleeps,
                     [after |-> attempt,
                      delay |-> BackoffDelay(impl, retryDelayMs, attempt, jitter)])
            /\ pc' = "sleep"
            /\ UNCHANGED <<result, finalError>>
       ELSE /\ pc' = "failed"
            /\ finalError' = [kind |-> FinalErrorKind(impl, out.err), cause |-> out.err]
            /\ UNCHANGED <<result, sleeps>>

Conclude(out, entry) ==
    IF out.ok THEN Return(out, entry) ELSE HandleError(out, entry)

\* a non-streaming attempt: generateContent, the checks on its response
GenerateContent ==
    /\ pc = "attempt"
    /\ ~useStreaming
    /\ calls' = calls + 1
    /\ UNCHANGED accumulatedText
    /\ \/ \E e \in RawMessages :
            Conclude(NonStreamingAttempt(impl, provider, e, NoResp),
                     LogEntry(e, NoMsg, NoResp,
                              NonStreamingAttempt(impl, provider, e, NoResp)))
       \/ \E r \in Responses :
            Conclude(NonStreamingAttempt(impl, provider, NoMsg, r),
                     LogEntry(NoMsg, NoMsg, r,
                              NonStreamingAttempt(impl, provider, NoMsg, r)))
    /\ UNCHANGED <<outside, config, attempt, chunks>>

\* a streaming attempt begins: generateContentStream, a fresh accumulator
GenerateContentStream ==
    /\ pc = "attempt"
    /\ useStreaming
    /\ calls' = calls + 1
    /\ accumulatedText' = NewAccumulator(accumulatedText)
    /\ chunks' = <<>>
    /\ \/ /\ pc' = "stream"
          /\ UNCHANGED <<result, finalError, sleeps, attemptLog, discarded>>
       \/ \E e \in RawMessages :
            HandleError(Fail(e), LogEntry(e, NoMsg, NoResp, Fail(e)))
    /\ UNCHANGED <<outside, config, attempt>>

\* the chunk loop consumes one stream item
NextChunk ==
    /\ pc = "stream"
    /\ Len(chunks) < MaxChunks
    /\ \E c \in StubChunks(impl, provider) :
          /\ chunks' = Append(chunks, c)
          /\ IF ChunkBlocks(impl, provider, c)
             THEN /\ UNCHANGED accumulatedText
                  /\ HandleError(Fail(BlockedError(c.err)),
                                 LogEntry(NoMsg, c.err, NoResp, Fail(BlockedError(c.err))))
             ELSE /\ accumulatedText' = AccumulateChunk(impl, provider, accumulatedText, c)
                  /\ UNCHANGED <<pc, result, finalError, sleeps, attemptLog,
                                 discarded>>
    /\ UNCHANGED <<outside, config, attempt, calls>>

\* the stream itself fails while being iterated
StreamThrows ==
    /\ pc = "stream"
    /\ UNCHANGED accumulatedText
    /\ \E e \in RawMessages :
          HandleError(Fail(e), LogEntry(e, NoMsg, NoResp, Fail(e)))
    /\ UNCHANGED <<outside, config, attempt, chunks, calls>>

\* the stream ends: the aggregate, its checks, the fallback extraction
EndOfStream ==
    /\ pc = "stream"
    /\ \/ \E agg \in StubAggregates(impl, Len(chunks)) :
            /\ accumulatedText' = AggregateFallback(impl, accumulatedText, agg)
            /\ Conclude(FinishStream(impl, provider, accumulatedText, Len(chunks), NoMsg, agg),
                        LogEntry(NoMsg, NoMsg, agg,
                            FinishStream(impl, provider, accumulatedText, Len(chunks), NoMsg, agg)))
       \/ \E e \in StubAggregateErrors(impl) :
            /\ UNCHANGED accumulatedText
            /\ Conclude(FinishStream(impl, provider, accumulatedText, Len(chunks), e, NoResp),
                        LogEntry(e, NoMsg, NoResp,
                            FinishStream(impl, provider, accumulatedText, Len(chunks), e, NoResp)))
    /\ UNCHANGED <<outside, config, attempt, chunks, calls>>

\* the backoff sleep is over: attempt++ and the loop condition
SleepDone ==
    /\ pc = "sleep"
    /\ attempt' = NextAttempt(attempt)
    /\ IF NextAttempt(attempt) <= maxRetries
       THEN pc' = "attempt" /\ UNCHANGED finalError
       ELSE pc' = "failed" /\ finalError' = [kind |-> "maxRetries", cause |-> MaxRetriesError]
    /\ UNCHANGED <<outside, config, accumulatedText, chunks, result, calls, sleeps,
                   attemptLog, discarded>>

Next ==
    \/ GenerateContent
    \/ GenerateContentStream
    \/ NextChunk
    \/ StreamThrows
    \/ EndOfStream
    \/ SleepDone

Spec == Init /\ [][Next]_vars

TypeOK ==
    /\ pc \in {"attempt", "stream", "sleep", "returned", "failed"}
    /\ attempt \in 0..(MaxRetriesBound + 1)
    /\ calls \in 0..(MaxRetriesBound + 2)

\* ============================================ the tool list and the request
InitTools ==
    /\ \E v \in Variants : impl = v.impl /\ provider = v.provider
    /\ useStreaming \in BOOLEAN
    /\ maxRetries = 0
    /\ retryDelayMs = 0
    /\ LoopIdle
    /\ ConfigIdle
    /\ ConcIdle
    /\ HandlerIdle
    /\ prompt \in Prompts
    /\ tools = NoTools
    /\ request = NoRequest
    /\ toolPc = "prompt"

\* the handler builds the tool list from what buildPrompt returned
GetToolsForApi ==
    /\ toolPc = "prompt"
    /\ tools' = getToolsForApi(prompt.enableFunctionCalling, prompt.useWebSearch)
    /\ toolPc' = "built"
    /\ UNCHANGED <<config, loopVars, handlerVars, cfgVars, concVars, prompt, request>>

\* a caller of the exported function hands it a tool list of its own
PassTools ==
    /\ toolPc = "prompt"
    /\ tools' \in ToolLists
    /\ toolPc' = "built"
    /\ UNCHANGED <<config, loopVars, handlerVars, cfgVars, concVars, prompt, request>>

\* the client function prepares the request and invokes the provider
SendRequest ==
    /\ toolPc = "built"
    /\ request' = BuildRequest(impl, provider, useStreaming, tools)
    /\ toolPc' = "sent"
    /\ calls' = calls + 1
    /\ UNCHANGED <<config, maxRetries, retryDelayMs, pc, attempt, accumulatedText,
                   chunks, result, finalError, sleeps, attemptLog, discarded, cfgVars,
                   concVars, handlerVars,
                   prompt, tools>>

NextTools ==
    \/ GetToolsForApi
    \/ PassTools
    \/ SendRequest

SpecTools == InitTools /\ [][NextTools]_vars

\* ================================================ startup and configuration
\* the most configurations handed out in one run
MaxResolves == 3

InitConfig ==
    /\ impl \in Impls
    /\ provider = "vertex"
    /\ useStreaming = TRUE
    /\ maxRetries = 0
    /\ retryDelayMs = 0
    /\ LoopIdle
    /\ ToolsIdle
    /\ ConcIdle
    /\ HandlerIdle
    /\ env \in Envs
    /\ proc = "loading"
    /\ aiConfig = NoConfig
    /\ client = "none"
    /\ resolved = <<>>

\* the startup validation: the process goes on or exits with status 1
ValidateConfig ==
    /\ proc = "loading"
    /\ proc' = IF validateConfig(impl, env) THEN "validated" ELSE "exited"
    /\ UNCHANGED <<config, loopVars, handlerVars, toolVars, concVars, env, aiConfig, client, resolved>>

\* the client module is evaluated: it resolves the configuration it keeps
\* and builds its client, or exits; the legacy module keeps no configuration
InitializeAI ==
    /\ proc = "validated"
    /\ aiConfig' = IF impl = "legacy" THEN NoConfig ELSE Resolve(impl, env)
    /\ env' = IF impl = "legacy" THEN env ELSE EnvAfterResolve(env)
    /\ client' = InitializeClient(impl, Resolve(impl, env))
    /\ proc' = IF InitializeClient(impl, Resolve(impl, env)) = "none" THEN "exited" ELSE "ready"
    /\ UNCHANGED <<config, loopVars, handlerVars, toolVars, concVars, resolved>>

\* the exported resolver is called
GetConfig ==
    /\ proc \in {"validated", "ready", "serving"}
    /\ Len(resolved) < MaxResolves
    /\ resolved' = Append(resolved, Resolve(impl, env))
    /\ env' = EnvAfterResolve(env)
    /\ UNCHANGED <<config, loopVars, handlerVars, toolVars, concVars, proc, aiConfig, client>>

\* a tool call is served: the legacy handler resolves the configuration for
\* the call, the other functions read the one their module keeps
ServeToolCall ==
    /\ proc \in {"ready", "serving"}
    /\ Len(resolved) < MaxResolves
    /\ proc' = "serving"
    /\ LET cfg == IF impl = "legacy" THEN Resolve(impl, env) ELSE aiConfig
       IN /\ resolved' = Append(resolved, cfg)
          /\ provider' = (IF impl = "legacy" THEN "vertex" ELSE cfg.provider)
          /\ useStreaming' = cfg.useStreaming
          /\ maxRetries' = cfg.maxRetries
          /\ retryDelayMs' = cfg.retryDelayMs
    /\ env' = IF impl = "legacy" THEN EnvAfterResolve(env) ELSE env
    /\ UNCHANGED <<impl, pc, attempt, accumulatedText, chunks, result, finalError,
                   calls, sleeps, attemptLog, discarded, toolVars, concVars,
                   handlerVars,
                   aiConfig, client>>

NextConfig ==
    \/ ValidateConfig
    \/ InitializeAI
    \/ GetConfig
    \/ ServeToolCall

SpecConfig == InitConfig /\ [][NextConfig]_vars

\* ===================================================== concurrent tool calls
InitConc ==
    /\ \E v \in Variants : impl = v.impl /\ provider = v.provider
    /\ useStreaming \in BOOLEAN
    /\ maxRetries = 1
    /\ retryDelayMs = 0
    /\ LoopIdle
    /\ ToolsIdle
    /\ ConfigIdle
    /\ HandlerIdle
    /\ script \in [CallIds -> Scripts]
    /\ frames = [c \in CallIds |-> NewFrame]
    /\ at = [c \in CallIds |-> InitialCall.at]
    /\ outcome = [c \in CallIds |-> NoOutcome]

\* call c resumes at the await it is suspended at and runs to the next one
Resume(c) ==
    LET st == [frame |-> frames[Frame(c)], at |-> at[c], out |-> outcome[c]]
        nx == CallStep(impl, provider, useStreaming, maxRetries, st, script[c])
    IN /\ frames' = [frames EXCEPT ![Frame(c)] = nx.frame]
       /\ at' = [at EXCEPT ![c] = nx.at]
       /\ outcome' = [outcome EXCEPT ![c] = nx.out]
       /\ UNCHANGED <<config, loopVars, handlerVars, toolVars, cfgVars, script>>

\* the transport dispatches call c: its invocation begins
DispatchCall(c) == at[c].pc = "start" /\ Resume(c)

\* the provider answers the generateContent / generateContentStream of call c
ProviderAnswers(c) == at[c].pc = "attempt" /\ Resume(c)

\* the stream of call c delivers its next chunk, or ends
ChunkArrives(c) == at[c].pc = "stream" /\ Resume(c)

\* the backoff sleep of call c is over
BackoffElapsed(c) == at[c].pc = "sleep" /\ Resume(c)

NextConc ==
    \/ \E c \in CallIds : DispatchCall(c)
    \/ \E c \in CallIds : ProviderAnswers(c)
    \/ \E c \in CallIds : ChunkArrives(c)
    \/ \E c \in CallIds : BackoffElapsed(c)

SpecConc == InitConc /\ [][NextConc]_vars

\* -------------------------------------------- the handler, one call at a time
MaxToolCalls == 2

UnknownToolName == "no_such_tool"

InitHandler ==
    /\ impl = "legacy"
    /\ provider = "vertex"
    /\ useStreaming \in BOOLEAN
    /\ maxRetries = 0
    /\ retryDelayMs = 0
    /\ LoopIdle
    /\ ToolsIdle
    /\ ConfigIdle
    /\ ConcIdle
    /\ HandlerIdle

\* the handler is entered with request.params
ReceiveToolCall ==
    /\ hpc \in {"idle", "done"}
    /\ served < MaxToolCalls
    /\ \E toolName \in ToolNames \cup {UnknownToolName} :
          \E args \in ArgsFor(toolName) :
             toolCall' = [name |-> toolName, args |-> args]
    /\ hpc' = "received"
    /\ fsLog' = <<>>
    /\ generated' = 0
    /\ reply' = NoReply
    /\ resultText' = <<>>
    /\ served' = served + 1
    /\ UNCHANGED <<config, loopVars, toolVars, cfgVars, concVars, files>>

\* the handler returns its result or throws what its catch block made of s
Respond(s) ==
    /\ files' = s.files
    /\ fsLog' = s.log
    /\ generated' = s.generated
    /\ reply' = IF s.error = NoThrow THEN Thrown("result", "none", "none")
                ELSE HandlerCatch(s.error)
    /\ resultText' = IF s.error = NoThrow THEN s.text ELSE <<>>
    /\ hpc' = "done"
    /\ UNCHANGED <<config, loopVars, toolVars, cfgVars, concVars, toolCall, served>>

UnknownTool ==
    /\ hpc = "received"
    /\ toolCall.name \notin ToolNames
    /\ Respond(Throw(Started(files), McpError("MethodNotFound", "Unknown tool")))

HandleSaveTool ==
    /\ hpc = "received"
    /\ toolCall.name \in SaveToolNames
    /\ \E gen \in GenOutcomes :
          Respond(SaveTool(toolCall.name, toolCall.args, gen, files))

HandleFilesystemTool ==
    /\ hpc = "received"
    /\ toolCall.name \in filesystemToolNames
    /\ Respond(FilesystemTool(toolCall.name, toolCall.args, files))

HandleAiTool ==
    /\ hpc = "received"
    /\ toolCall.name \in AiToolNames
    /\ \E gen \in GenOutcomes :
          Respond(AiTool(toolCall.name, toolCall.args, gen, files))

NextHandler ==
    \/ ReceiveToolCall
    \/ UnknownTool
    \/ HandleSaveTool
    \/ HandleFilesystemTool
    \/ HandleAiTool

SpecHandler == InitHandler /\ [][NextHandler]_vars

\* ============================================================ properties
RECURSIVE ChunkText(_)
\* the in-order concatenation of the text fragments of a chunk sequence
ChunkText(cs) ==
    IF cs = <<>> THEN <<>>
    ELSE ChunkText(SubSeq(cs, 1, Len(cs) - 1)) \o
         (IF cs[Len(cs)].kind = "text" THEN cs[Len(cs)].text ELSE <<>>)

\* a message carrying a block / safety indicator
BlockSignature(e) == Includes(e, "blocked") \/ Includes(e, "safety")

\* a message carrying a transient-fault indicator and no block indicator
RetryableSignature(e) ==
    /\ e # NoMsg
    /\ e.status # "BLOCKED"
    /\ ~BlockSignature(e)
    /\ \E tok \in TransientTokens : Includes(e, tok)

\* an error that is neither a block nor a transient fault
FatalSignature(e) ==
    /\ e # NoMsg
    /\ ~BlockSignature(e)
    /\ \A tok \in TransientTokens : ~Includes(e, tok)

\* a response-level block reason other than the "no block" values
BlockingReason(resp) ==
    resp # NoResp /\ resp.blockReason \notin {"none", "BLOCK_REASON_UNSPECIFIED", "OTHER"}

\* a response or aggregate that reports a block
ReportsBlock(resp) ==
    resp # NoResp /\ (BlockingReason(resp) \/ resp.finishReason = "SAFETY")

\* a response or aggregate without any block signal
NoBlockSignal(resp) ==
    resp = NoResp \/ (resp.blockReason = "none" /\ resp.finishReason = "STOP")

\* the running attempt has ended and attemptLog holds its entry
AttemptEnded == Len(attemptLog) = calls /\ calls > 0
LastEntry == attemptLog[Len(attemptLog)]

\* the provider raised a retryable signature on every attempt made
AlwaysFailedRetryable ==
    /\ AttemptEnded
    /\ \A i \in DOMAIN attemptLog : RetryableSignature(attemptLog[i].threw)

\* C1: a provider that fails every attempt with a retryable signature (a
\* message containing 429/500/503/unavailable and no block indicator) is
\* invoked exactly maxRetries + 1 times and the call then raises an error.
C1_ExactlyMaxRetriesPlusOneAttempts ==
    AlwaysFailedRetryable =>
        /\ calls <= maxRetries + 1
        /\ pc # "returned"
        /\ (pc = "failed" => calls = maxRetries + 1)

\* attempt number i (1-based in attemptLog) met a block / safety signature:
\* raised by the provider, raised by a chunk, or reported as the response's
\* block reason
BlockedAttempt(i) ==
    \/ (attemptLog[i].threw # NoMsg /\ BlockSignature(attemptLog[i].threw))
    \/ (attemptLog[i].chunkErr # NoMsg /\ Includes(attemptLog[i].chunkErr, "safety"))
    \/ BlockingReason(attemptLog[i].resp)

\* C2: a block / safety signature raised or reported on attempt i is
\* terminal: the call raises at once, no backoff sleep follows the attempt
\* and the provider is not invoked again.
C2_BlockedIsTerminal ==
    \A i \in DOMAIN attemptLog :
        BlockedAttempt(i) =>
            /\ i = Len(attemptLog)
            /\ pc = "failed"
            /\ calls = i
            /\ \A j \in DOMAIN sleeps : sleeps[j].after # i - 1

\* attempt number i failed with a Fatal error
FatalAttempt(i) == ~attemptLog[i].ok /\ FatalSignature(attemptLog[i].err)

\* C3 as stated: a Fatal error is retried like a Retryable one: while
\* attempts remain, a backoff sleep follows it.
C3_FatalIsRetried ==
    \A i \in DOMAIN attemptLog :
        (FatalAttempt(i) /\ i - 1 < maxRetries) =>
            \E j \in DOMAIN sleeps : sleeps[j].after = i - 1

\* C3 amended: a Fatal error is not retried: it ends the call on the attempt
\* it occurs, with no backoff sleep and no further provider invocation,
\* whatever attempts remain.
C3_FatalIsTerminal ==
    \A i \in DOMAIN attemptLog :
        FatalAttempt(i) =>
            /\ i = Len(attemptLog)
            /\ pc = "failed"
            /\ calls = i
            /\ \A j \in DOMAIN sleeps : sleeps[j].after # i - 1

C3_Witness ==
    /\ pc = "failed"
    /\ AttemptEnded
    /\ FatalAttempt(Len(attemptLog))
    /\ attempt < maxRetries

\* the text the provider delivered in the attempt that just ended
DeliveredText ==
    IF useStreaming
    THEN IF ChunkText(chunks) # <<>> THEN ChunkText(chunks) ELSE LastEntry.resp.text
    ELSE LastEntry.resp.text

\* the provider failed with a retryable signature on every attempt but the
\* last, and the last one succeeded
FailedThenSucceeded ==
    /\ AttemptEnded
    /\ LastEntry.ok
    /\ \A i \in 1..(Len(attemptLog) - 1) : RetryableSignature(attemptLog[i].threw)

C5_BackoffBounds ==
    /\ \A j \in DOMAIN sleeps :
          /\ retryDelayMs * Pow2(sleeps[j].after) <= sleeps[j].delay
          /\ sleeps[j].delay < retryDelayMs * Pow2(sleeps[j].after) + JitterMs
    /\ \A j \in 1..(Len(sleeps) - 1) :
          retryDelayMs * Pow2(sleeps[j + 1].after) = 2 * (retryDelayMs * Pow2(sleeps[j].after))

C5_Witness ==
    /\ Len(sleeps) = 2
    /\ retryDelayMs = 1000
    /\ sleeps[1].delay = 1499
    /\ sleeps[2].delay >= 2000

\* the provider succeeded on the first attempt: nothing was raised, the
\* text is not empty and no block signal came with it
FirstAttemptSucceeds ==
    /\ AttemptEnded
    /\ calls = 1
    /\ LastEntry.threw = NoMsg
    /\ LastEntry.chunkErr = NoMsg
    /\ NoBlockSignal(LastEntry.resp)
    /\ IF useStreaming
       THEN /\ \A k \in DOMAIN chunks : chunks[k].kind = "text"
            /\ ChunkText(chunks) # <<>>
       ELSE LastEntry.resp.text # <<>>

\* C6: when the provider succeeds on the first attempt with a non-empty
\* text and no block signal, the call returns exactly that text after one
\* provider invocation and no backoff sleep, streaming or not.
C6_FirstAttemptSuccess ==
    FirstAttemptSucceeds =>
        /\ pc = "returned"
        /\ result = (IF useStreaming THEN ChunkText(chunks) ELSE LastEntry.resp.text)
        /\ calls = 1
        /\ sleeps = <<>>

C6_Witness ==
    /\ FirstAttemptSucceeds
    /\ useStreaming
    /\ result = <<"a", "b">>

\* C7: the call is all or nothing: a failed call hands no text to the
\* caller, and a streaming attempt whose chunks yielded text but whose
\* end-of-stream aggregate carries a blocking block reason or finish reason
\* SAFETY ends in a blocked error, never in the accumulated text.
C7_AllOrNothing ==
    /\ pc = "failed" => result = <<>>
    /\ (/\ useStreaming
        /\ AttemptEnded
        /\ ReportsBlock(LastEntry.resp)
        /\ ChunkText(chunks) # <<>>)
       => (pc = "failed" /\ Includes(finalError.cause, "blocked") /\ result = <<>>)

\* a streaming attempt reached the end of its stream with no text from any
\* chunk, an aggregate that could be read and no block signal
EndedWithoutChunkText ==
    /\ useStreaming
    /\ AttemptEnded
    /\ LastEntry.threw = NoMsg
    /\ LastEntry.chunkErr = NoMsg
    /\ LastEntry.resp # NoResp
    /\ NoBlockSignal(LastEntry.resp)
    /\ ChunkText(chunks) = <<>>

\* C8: when no chunk contributed text, the attempt extracts once more from
\* the aggregate's first candidate and succeeds with that text if it is not
\* empty; it fails with the "empty or non-text response" error only when
\* that text is empty too.
C8_AggregateFallback ==
    EndedWithoutChunkText =>
        IF LastEntry.resp.text # <<>>
        THEN LastEntry.ok /\ pc = "returned" /\ result = LastEntry.resp.text
        ELSE ~LastEntry.ok /\ LastEntry.err = EmptyStreamError

C8_Witness ==
    /\ EndedWithoutChunkText
    /\ Len(chunks) > 0
    /\ pc = "returned"
    /\ result = <<"a">>

\* the attempt that just ended inspected a response that carries text
CarriesText ==
    IF useStreaming
    THEN ChunkText(chunks) # <<>> /\ \A k \in DOMAIN chunks : chunks[k].kind = "text"
    ELSE LastEntry.resp.text # <<>>

\* C9: a response-level block reason raises a blocked error only when it is
\* present and not a "no block" value: a response with block reason
\* BLOCK_REASON_UNSPECIFIED or OTHER that carries text is returned as a
\* success, for both providers and both execution modes.
C9_NoBlockValuesSucceed ==
    (/\ AttemptEnded
     /\ LastEntry.threw = NoMsg
     /\ LastEntry.chunkErr = NoMsg
     /\ LastEntry.resp # NoResp
     /\ LastEntry.resp.blockReason \in {"BLOCK_REASON_UNSPECIFIED", "OTHER"}
     /\ LastEntry.resp.finishReason = "STOP"
     /\ CarriesText)
    => (LastEntry.ok /\ pc = "returned" /\ result # <<>>)

\* a streaming attempt just succeeded with text that its chunks delivered
StreamedSuccess ==
    /\ useStreaming
    /\ AttemptEnded
    /\ LastEntry.ok
    /\ ChunkText(chunks) # <<>>

\* the single non-streaming response of identical content: the text is the
\* concatenation of the fragments, the signals are those the stream ended with
SingleResponse == [LastEntry.resp EXCEPT !.text = ChunkText(chunks)]

\* C11: the text a successful streaming attempt returns is the in-order
\* concatenation of the text fragments of its chunks, and it is what the
\* non-streaming branch of the same function returns for a single response
\* whose text is that concatenation.
C11_StreamEqualsSingleResponse ==
    StreamedSuccess =>
        /\ pc = "returned"
        /\ result = ChunkText(chunks)
        /\ NonStreamingAttempt(impl, provider, NoMsg, SingleResponse) = Ok(result)

C11_Witness ==
    /\ StreamedSuccess
    /\ attempt = 1
    /\ Len(chunks) = 2
    /\ result = <<"b", "a">>

\* the chunk a step consumes
Consumed == chunks'[Len(chunks')]

\* C10: in the chunk loop a chunk whose extraction raises an error without
\* a safety indicator, or that yields no text, is skipped: the stream keeps
\* being consumed and the accumulator is unchanged; a chunk whose extraction
\* error contains a safety indicator ends the attempt at once with a
\* blocked error, and no later chunk is consumed.
C10_ChunkStep ==
    (pc = "stream" /\ Len(chunks') = Len(chunks) + 1) =>
        /\ ((Consumed.kind = "throw" /\ ~Includes(Consumed.err, "safety"))
              \/ (Consumed.kind = "text" /\ Consumed.text = <<>>))
           => (pc' = "stream" /\ accumulatedText' = accumulatedText)
        /\ (Consumed.kind = "throw" /\ Includes(Consumed.err, "safety"))
           => (/\ pc' = "failed"
               /\ Includes(finalError'.cause, "blocked")
               /\ calls' = calls
               /\ sleeps' = sleeps)

C10_ChunkHandling == [][C10_ChunkStep]_vars

C10_Witness ==
    /\ pc = "failed"
    /\ maxRetries > 0
    /\ Len(chunks) = 2
    /\ chunks[1].kind = "throw"
    /\ ~Includes(chunks[1].err, "safety")
    /\ chunks[2].kind = "throw"
    /\ Includes(chunks[2].err, "safety")
    /\ LastEntry.chunkErr = chunks[2].err

\* the tool list the client function received is the one getToolsForApi
\* builds for the prompt
BuiltByGetToolsForApi ==
    tools = getToolsForApi(prompt.enableFunctionCalling, prompt.useWebSearch)

\* C12: for a tool list built by getToolsForApi the Vertex request goes
\* through the preview (grounding-capable) model when the prompt asks for
\* web search and through the default model when it does not.  The two
\* functions that hold both models are concerned.
C12_GroundingPathSelected ==
    (/\ toolPc = "sent"
     /\ provider = "vertex"
     /\ impl \in {"dual", "legacy"}
     /\ BuiltByGetToolsForApi)
    => request.surface = (IF prompt.useWebSearch THEN "preview" ELSE "default")

\* the tool list holds the search declaration the function looks for
\* together with a function declaration
SearchWithOthers ==
    /\ \E i \in DOMAIN tools : tools[i] = SearchKey(impl)
    /\ \E i \in DOMAIN tools : tools[i] = "functionDeclarations"

\* C13: with provider vertex, a tool list that holds a search declaration
\* together with other declarations is sent as the search declaration
\* only: the other declarations are dropped from the request.
C13_OnlySearchIsSent ==
    (toolPc = "sent" /\ provider = "vertex" /\ SearchWithOthers)
    => /\ request.tools # NoTools
       /\ \A i \in DOMAIN request.tools : request.tools[i] = SearchKey(impl)

\* C14: with provider gemini the request carries no tools, whatever the
\* tool list and in streaming as in non-streaming mode.
C14_NoToolsReachGemini ==
    (toolPc = "sent" /\ provider = "gemini") => request.tools = NoTools

\* the provider the environment selects
SelectedProvider == IF impl = "legacy" THEN "vertex" ELSE getAIProvider(env)

\* the mandatory credential of the selected provider is absent
CredentialAbsent ==
    \/ SelectedProvider = "vertex" /\ env.GOOGLE_CLOUD_PROJECT = Unset
    \/ SelectedProvider = "gemini" /\ env.GEMINI_API_KEY = Unset

\* C15: once the startup validation has run, the process has exited exactly
\* when the credential of the selected provider is absent (provider vertex
\* without GOOGLE_CLOUD_PROJECT, provider gemini without GEMINI_API_KEY);
\* with the credential present it goes on, and a tool call is served only by
\* a process whose validation has passed.
C15_StartupValidation ==
    /\ proc # "loading" => (proc = "exited" <=> CredentialAbsent)
    /\ proc = "serving" => (~CredentialAbsent /\ client # "none")

C15_Witness ==
    /\ proc = "exited"
    /\ env.AI_PROVIDER = "GEMINI"
    /\ env.GOOGLE_CLOUD_PROJECT # Unset
    /\ env.GEMINI_API_KEY = Unset

\* exactly the credential set of the provider field is populated
OneCredentialSet(cfg) ==
    /\ cfg.provider = "vertex" => (cfg.gcpProjectId # Unset /\ cfg.geminiApiKey = Unset)
    /\ cfg.provider = "gemini" => (cfg.geminiApiKey # Unset /\ cfg.gcpProjectId = Unset)

\* C16: the configuration a validated process holds has exactly one
\* credential set populated, the one of its provider field: provider vertex
\* has the project id and no API key, provider gemini has the API key and
\* no project id.
C16_OneCredentialSet ==
    (impl # "legacy" /\ proc \in {"ready", "serving"}) => OneCredentialSet(aiConfig)

CallState(c) == [frame |-> frames[Frame(c)], at |-> at[c], out |-> outcome[c]]

InsideWorkspace(p) == StartsWith(p, Cwd)

\* C18: every filesystem access a tool makes (read, write, edit, mkdir, list,
\* tree, move, search, stat, the save_* output) is on a path inside the
\* workspace root; a path that resolves outside it, a sibling directory whose
\* name starts with the root's name included, is never accessed.
C18_AccessesStayInWorkspace ==
    \A i \in DOMAIN fsLog : InsideWorkspace(fsLog[i].path)

\* the arguments do not fit the schema of the tool: a path the tool requires
\* is not a string, or another field has the wrong shape
ViolatesSchema(call) ==
    \/ ~call.args.rest
    \/ /\ call.name \notin AiToolNames \cup {"read_multiple_files_content"}
       /\ call.args.path = NotAString
    \/ /\ call.name = "move_file_or_directory"
       /\ call.args.destination = NotAString

\* C19: a call of a known tool whose arguments violate its schema is answered
\* at once with InvalidParams, with no call of the client function (hence no
\* provider call, retry or backoff sleep) and no filesystem access or change.
C19_SchemaViolationIsInvalidParams ==
    [][(/\ hpc = "received"
        /\ toolCall.name \in ToolNames
        /\ ViolatesSchema(toolCall))
          => /\ hpc' = "done"
             /\ reply'.class = "McpError"
             /\ reply'.code = "InvalidParams"
             /\ generated' = 0
             /\ fsLog' = <<>>
             /\ files' = files]_vars

\* a save tool called without its output path, after an earlier call has
\* changed the filesystem
C19_Witness ==
    /\ hpc = "done"
    /\ toolCall.name = "save_doc_snippet"
    /\ toolCall.args.path = NotAString
    /\ reply.code = "InvalidParams"
    /\ generated = 0
    /\ files # InitialFiles

\* what the specification says of an integer tunable: the parsed integer
\* when the variable parses to one not below lo, the default otherwise
SpecifiedInt(raw, lo, default) ==
    IF ParseInt(raw) # <<>> /\ ParseInt(raw)[1] >= lo
    THEN ParseInt(raw)[1]
    ELSE default

\* C21: every resolved configuration has maxOutputTokens the parsed integer
\* when it is above 0 and 8192 otherwise, maxRetries the parsed integer when
\* it is not negative and 3 otherwise, retryDelayMs the parsed integer when it
\* is not negative and 1000 otherwise; so maxOutputTokens > 0, maxRetries >= 0
\* and retryDelayMs >= 0.
C21_IntegerTunables ==
    \A i \in DOMAIN resolved :
        /\ resolved[i].maxOutputTokens =
              SpecifiedInt(env.AI_MAX_OUTPUT_TOKENS, 1, DEFAULT_MAX_OUTPUT_TOKENS)
        /\ resolved[i].maxRetries =
              SpecifiedInt(env.AI_MAX_RETRIES, 0, DEFAULT_MAX_RETRIES)
        /\ resolved[i].retryDelayMs =
              SpecifiedInt(env.AI_RETRY_DELAY_MS, 0, DEFAULT_RETRY_DELAY_MS)
        /\ resolved[i].maxOutputTokens > 0
        /\ resolved[i].maxRetries >= 0
        /\ resolved[i].retryDelayMs >= 0

\* C22: the resolved temperature (in tenths) is the parsed value when it lies
\* within [0.0, 2.0], boundaries included, and the default 0.0 otherwise.
C22_TemperatureRange ==
    \A i \in DOMAIN resolved :
        resolved[i].temperature =
            IF /\ ParseFloat(env.AI_TEMPERATURE) # <<>>
               /\ ParseFloat(env.AI_TEMPERATURE)[1] >= 0
               /\ ParseFloat(env.AI_TEMPERATURE)[1] <= 20
            THEN ParseFloat(env.AI_TEMPERATURE)[1]
            ELSE DEFAULT_TEMPERATURE


\* the requested path passes the validation and names a file that exists
Readable(fl, requestedPath) ==
    /\ validateWorkspacePath(requestedPath).ok
    /\ PathResolve(requestedPath) \in DOMAIN fl
    /\ fl[PathResolve(requestedPath)] # Directory

ThrownMessage ==
    IF finalError.kind = "maxRetries"
    THEN MaxRetriesMessage(impl, provider, maxRetries)
    ELSE FinalErrorMessage(impl, provider, finalError.cause)

\* every attempt the loop allows was made and each met a retryable error
AllAttemptsRetryable ==
    /\ pc = "failed"
    /\ Len(attemptLog) = maxRetries + 1
    /\ \A i \in DOMAIN attemptLog :
          ~attemptLog[i].ok /\ IsRetryable(impl, attemptLog[i].err)

\* C24: when every attempt was consumed by a retryable error, the error
\* thrown carries the number of attempts made (maxRetries + 1), the message
\* of the last attempt's error and the provider name.
C24_ExhaustedCarriesAttemptCount ==
    AllAttemptsRetryable =>
        /\ ThrownMessage.attempts = <<maxRetries + 1>>
        /\ ThrownMessage.cause = attemptLog[Len(attemptLog)].err
        /\ ThrownMessage.provider = provider


\* the error caught on attempt i carries a block / safety indicator and a
\* retryable token as well
BlockAndTransient(i) ==
    /\ ~attemptLog[i].ok
    /\ BlockSignature(attemptLog[i].err)
    /\ \E tok \in TransientTokens : Includes(attemptLog[i].err, tok)

\* C25: an error whose message contains a block / safety indicator together
\* with a retryable token is classified as blocked and not as retryable, and
\* it ends the call on its attempt: no sleep follows it, whatever the attempt
\* index and maxRetries.
C25_BlockPrecedence ==
    \A i \in DOMAIN attemptLog :
        BlockAndTransient(i) =>
            /\ IsBlockingError(impl, attemptLog[i].err)
            /\ ~IsRetryable(impl, attemptLog[i].err)
            /\ i = Len(attemptLog)
            /\ pc = "failed"
            /\ \A j \in DOMAIN sleeps : sleeps[j].after # i - 1

\* the text of the attempt that succeeded: its fragments in order, or the
\* text of its aggregate when no chunk carried any
TextOfLastAttempt ==
    IF ChunkText(chunks) # <<>> THEN ChunkText(chunks) ELSE LastEntry.resp.text

\* C26: each streaming attempt starts with an empty accumulator: before its
\* first chunk the accumulator is empty, while it streams the accumulator
\* holds the fragments of its own chunks only, and when an earlier attempt
\* of the call accumulated text and then failed, the text a later attempt
\* returns is the text of that later attempt alone.
C26_FreshAccumulatorPerAttempt ==
    /\ (useStreaming /\ pc = "stream") => accumulatedText = ChunkText(chunks)
    /\ (useStreaming /\ discarded /\ pc = "returned" /\ AttemptEnded)
       => (LastEntry.ok /\ result = TextOfLastAttempt)

C26_Witness ==
    /\ useStreaming
    /\ discarded
    /\ pc = "returned"
    /\ attempt = 1
    /\ RetryableSignature(attemptLog[1].threw)
    /\ Len(chunks) = 1
    /\ result = <<"b">>

\* C27: every execution of the retry loop ends inside the loop body: the
\* loop variable never passes maxRetries, no sleep is taken on attempt index
\* maxRetries, a call that returned did so on a successful attempt, a call
\* that failed throws the classified error of the attempt that just failed,
\* and the "Max retries reached" error after the loop is never thrown.
C27_LoopEndsInsideBody ==
    /\ attempt <= maxRetries
    /\ pc = "sleep" => attempt < maxRetries
    /\ finalError.kind # "maxRetries"
    /\ pc = "returned" => (AttemptEnded /\ LastEntry.ok /\ calls = attempt + 1)
    /\ pc = "failed" =>
          /\ AttemptEnded
          /\ ~LastEntry.ok
          /\ calls = attempt + 1
          /\ finalError = [kind |-> FinalErrorKind(impl, LastEntry.err),
                           cause |-> LastEntry.err]

C27_Witness ==
    /\ pc = "failed"
    /\ maxRetries = MaxRetriesBound
    /\ attempt = maxRetries
    /\ Len(sleeps) = maxRetries
    /\ \A i \in DOMAIN attemptLog : RetryableSignature(attemptLog[i].threw)
    /\ finalError.kind = "status"

\* C28: once the initialization went through, the client it built matches
\* the provider of the configuration the module keeps: a project/location
\* client for provider vertex, an API-key client for provider gemini, also
\* when the environment holds both GOOGLE_CLOUD_PROJECT and GEMINI_API_KEY.
C28_ClientMatchesProvider ==
    proc \in {"ready", "serving"} =>
        /\ aiConfig.provider = "vertex" => client = "vertexai"
        /\ aiConfig.provider = "gemini" => client = "apikey"

\* an edit_file_content call is about to be handled
EditCall == hpc = "received" /\ toolCall.name = "edit_file_content"

\* every edit of the list finds its match
AllMatch(edits) == \A i \in DOMAIN edits : edits[i] = "match"

\* C29: edit_file_content changes the file only when dryRun is false and
\* every edit found a match. With dryRun true nothing on disk changes and a
\* call whose edits all match a readable file still returns the diff; when an
\* edit, the first or a later one, finds no match the call fails and nothing
\* on disk changes: the edits are applied all or none.
C29_EditsAllOrNone ==
    [][EditCall =>
        /\ files' # files
              => /\ ~toolCall.args.dryRun
                 /\ AllMatch(toolCall.args.edits)
                 /\ reply'.class = "result"
        /\ toolCall.args.dryRun => files' = files
        /\ (/\ toolCall.args.dryRun
            /\ ~ViolatesSchema(toolCall)
            /\ toolCall.args.edits # <<>>
            /\ AllMatch(toolCall.args.edits)
            /\ Readable(files, toolCall.args.path))
              => /\ reply'.class = "result"
                 /\ Head(resultText'[1].body) = "diff"
        /\ ~AllMatch(toolCall.args.edits)
              => /\ reply'.class # "result"
                 /\ files' = files]_vars

\* after an edit call that changed the file, a call whose second edit finds
\* no match has failed and left the file as the first call wrote it
C29_Witness ==
    /\ hpc = "done"
    /\ served = 2
    /\ toolCall.name = "edit_file_content"
    /\ ~toolCall.args.dryRun
    /\ toolCall.args.edits = <<"match", "nomatch">>
    /\ Readable(files, toolCall.args.path)
    /\ reply.class # "result"
    /\ files[PathResolve(toolCall.args.path)] = Append(OldContent, "+")

\* a save_* call is about to be handled
SaveCall == hpc = "received" /\ toolCall.name \in SaveToolNames

\* C30: a save_* tool writes its output only after the generative call has
\* succeeded and the output path was validated: when the generative call
\* fails (blocked, exhausted or fatal) or the output path resolves outside
\* the workspace, no directory is created and no file is created or
\* overwritten; the filesystem changes only in a call that succeeds, and
\* then the file at the output path holds exactly the generated text.
C30_SaveWritesOnlyAfterSuccess ==
    [][SaveCall =>
        /\ reply'.message \in (GenOutcomes \ GenTexts) => files' = files
        /\ (/\ toolCall.args.path.typeof = "string"
            /\ ~InsideWorkspace(PathResolve(toolCall.args.path)))
              => files' = files
        /\ files' # files => reply'.class = "result"
        /\ reply'.class = "result"
              => /\ generated' = 1
                 /\ \E t \in GenTexts :
                       files'[PathResolve(toolCall.args.path)] = <<t>>]_vars
====
